---- MODULE Spec2Model ----
(***************************************************************************)
(* A model of tcrshuffler: src/tcrshuffler/utils.py (region labelling, D   *)
(* alignment, cutpoint selection, padding) and src/tcrshuffler/core.py     *)
(* (the batch loop of shuffle and its output selection).                   *)
(*                                                                         *)
(* Python strings are sequences of one-character strings; gene ids are     *)
(* sequences of tokens (<<"TRBV1", "*", "01">> is "TRBV1*01"); Python's    *)
(* None, where a sequence is expected, is the empty tuple only where the   *)
(* code returns None or a tuple (choose_cutpoints_around_d).               *)
(***************************************************************************)
EXTENDS Integers, Sequences, FiniteSets, TLC

VARIABLES
    tcrs,                  \* the input table: rows (v, cdr3, j) of field values
    chain,                 \* "A" or "B"
    depth,                 \* sampling depth multiplier
    random_seed,           \* <<seed>>, or NoSeed for None
    return_presuffled,     \* output flag
    return_errors,         \* output flag
    min_cut_v, min_cut_j,  \* residues the caller asks to keep from V and J
    pc,                    \* where the call of shuffle stands
    k,                     \* records of sequences * depth processed so far
    store_v, store_d, store_j,   \* the three fragment pools
    error_cdr3,            \* the error list
    presuffled_receptors,  \* the diagnostic rows
    failure_rate,          \* <<numerator, denominator>> once computed
    rng,                   \* the state of Python's module-level generator
    result,                \* what the call returned
    run,                   \* number of the current call (1 or 2)
    prev_result,           \* what the previous call returned
    other_draws,           \* draws other code made between the two calls
    unit                   \* a direct call of a utility function and its result

vars == <<tcrs, chain, depth, random_seed, return_presuffled, return_errors,
          min_cut_v, min_cut_j, pc, k, store_v, store_d, store_j, error_cdr3, presuffled_receptors,
          failure_rate, rng, result, run, prev_result, other_draws, unit>>

(***************************************************************************)
(* Bounds of the model.                                                    *)
(***************************************************************************)
MaxBatch == 2
MaxDepth == 2
RngMod == 8
MaxLabelLen == 5
MaxOtherDraws == 2
MaxCdr3Len == 3
MaxGermLen == 2
MaxMin == 3
MaxTotalLength == 5
MaxMinCutV == 5
MaxMinCutJ == 4

(***************************************************************************)
(* Python building blocks.                                                 *)
(***************************************************************************)
Min(a, b) == IF a < b THEN a ELSE b
Max(a, b) == IF a > b THEN a ELSE b

\* s[start:stop] with Python's treatment of negative and out-of-range bounds.
PyIndex(x, n) == IF x < 0 THEN Max(x + n, 0) ELSE Min(x, n)
PySlice(s, start, stop) ==
    LET a == PyIndex(start, Len(s))
        b == PyIndex(stop, Len(s))
    IN  IF a < b THEN SubSeq(s, a + 1, b) ELSE <<>>

\* s[start:]
PyFrom(s, start) == PySlice(s, start, Len(s))

\* s[i] for a 0-based index i
At(s, i) == s[i + 1]

\* one copy too many
RECURSIVE Repeat_Longer(_, _)
Repeat_Longer(c, n) == IF n < 0 THEN <<>> ELSE Append(Repeat_Longer(c, n - 1), c)

\* c * n
RECURSIVE Repeat(_, _)
Repeat(c, n) == IF n <= 0 THEN <<>> ELSE Append(Repeat(c, n - 1), c)

\* str.lower() on the characters that occur
LowerChar(c) ==
    CASE c = "C" -> "c" [] c = "A" -> "a" [] c = "S" -> "s" [] c = "G" -> "g"
      [] c = "N" -> "n" [] c = "Q" -> "q" [] c = "Y" -> "y" [] c = "F" -> "f"
      [] c = "E" -> "e" [] c = "V" -> "v" [] c = "L" -> "l" [] c = "I" -> "i"
      [] OTHER -> c
Lower(s) == [i \in 1..Len(s) |-> LowerChar(s[i])]

\* str.split(";")[-1]: what follows the last ";"
RECURSIVE SplitLast(_)
SplitLast(s) ==
    IF \E i \in 1..Len(s) : s[i] = ";"
    THEN SplitLast(Tail(s))
    ELSE s

(***************************************************************************)
(* The module-level generator of Python's random: a deterministic function *)
(* of its state.  random.seed(n) sets the state from n alone; every draw   *)
(* advances the state and returns a value computed from it.                *)
(***************************************************************************)
\* random_seed is <<n>> for the integer n and <<>> for None
NoSeed == <<>>
SeedState(seed) == seed[1] % RngMod
RngNext(g) == (g + 3) % RngMod
\* _randbelow(n): the state after the draw decides the value in 0..n-1
RandBelow(g, n) == (RngNext(g) * n) \div RngMod

\* random.choice(seq)
RandomChoice(seq, g) == [val |-> seq[RandBelow(g, Len(seq)) + 1], rng |-> RngNext(g)]

\* random.shuffle(x): for i in reversed(range(1, len(x))): j = randbelow(i + 1);
\* x[i], x[j] = x[j], x[i]
\* x[i] = x[j] without the exchange
Swap_Overwrites(x, i, j) == [x EXCEPT ![i + 1] = x[j + 1]]
Swap(x, i, j) == [x EXCEPT ![i + 1] = x[j + 1], ![j + 1] = x[i + 1]]
RECURSIVE ShuffleLoop(_, _, _)
ShuffleLoop(x, i, g) ==
    IF i < 1 THEN [val |-> x, rng |-> g]
    ELSE ShuffleLoop(Swap(x, i, RandBelow(g, i + 1)), i - 1, RngNext(g))
RandomShuffle(x, g) == ShuffleLoop(x, Len(x) - 1, g)

(***************************************************************************)
(* utils.label_cdr3_germline_vj_regions                                    *)
(***************************************************************************)
\* the loop over enumerate(germline_v)
RECURSIVE LabelVLoop(_, _, _, _)
LabelVLoop(labels, cdr3, germline_v, i) ==
    IF i >= Len(germline_v) \/ i >= Len(cdr3) THEN labels
    ELSE LabelVLoop(IF At(germline_v, i) = At(cdr3, i)
                    THEN [labels EXCEPT ![i + 1] = "V"] ELSE labels,
                    cdr3, germline_v, i + 1)

\* the J loop without the test labels[-(j+1)] == 'N'
RECURSIVE LabelJLoop_Overwrites(_, _, _, _)
LabelJLoop_Overwrites(labels, cdr3, germline_j, j) ==
    IF j >= Len(germline_j) \/ j >= Len(cdr3) THEN labels
    ELSE LET aa  == At(germline_j, Len(germline_j) - 1 - j)
             pos == Len(cdr3) - 1 - j
         IN  LabelJLoop_Overwrites(IF aa = At(cdr3, pos)
                                   THEN [labels EXCEPT ![pos + 1] = "J"] ELSE labels,
                                   cdr3, germline_j, j + 1)

\* the loop over enumerate(reversed(germline_j)); index -(j+1) is len - j - 1
RECURSIVE LabelJLoop(_, _, _, _)
LabelJLoop(labels, cdr3, germline_j, j) ==
    IF j >= Len(germline_j) \/ j >= Len(cdr3) THEN labels
    ELSE LET aa  == At(germline_j, Len(germline_j) - 1 - j)
             pos == Len(cdr3) - 1 - j
         IN  LabelJLoop(IF aa = At(cdr3, pos) /\ At(labels, pos) = "N"
                        THEN [labels EXCEPT ![pos + 1] = "J"] ELSE labels,
                        cdr3, germline_j, j + 1)

label_cdr3_germline_vj_regions(cdr3, germline_v, germline_j) ==
    LET labels == Repeat("N", Len(cdr3))
    IN  LabelJLoop(LabelVLoop(labels, cdr3, germline_v, 0), cdr3, germline_j, 0)

(***************************************************************************)
(* utils.best_d_alignment                                                  *)
(***************************************************************************)
\* a[i:i+n] == b[j:j+n], 0-based
BlockMatches(a, b, i, j, n) ==
    /\ i + n <= Len(a)
    /\ j + n <= Len(b)
    /\ \A t \in 0..(n - 1) : At(a, i + t) = At(b, j + t)

\* difflib.SequenceMatcher(None, a, b).find_longest_match(0, len(a), 0, len(b)):
\* of all longest matching blocks the one that starts earliest in a and, of
\* those, earliest in b; (0, 0, 0) when nothing matches.
find_longest_match(a, b) ==
    CHOOSE m \in [a : 0..Len(a), b : 0..Len(b), size : 0..Min(Len(a), Len(b))] :
        /\ BlockMatches(a, b, m.a, m.b, m.size)
        /\ \A n \in 0..Min(Len(a), Len(b)), i \in 0..Len(a), j \in 0..Len(b) :
              (n > 0 /\ BlockMatches(a, b, i, j, n)) =>
                  \/ n < m.size
                  \/ n = m.size /\ i > m.a
                  \/ n = m.size /\ i = m.a /\ j >= m.b
        /\ m.size = 0 => (m.a = 0 /\ m.b = 0)

\* the loop with match.size >= best_score: the last candidate wins a tie
RECURSIVE BestDLoop_LastWins(_, _, _, _)
BestDLoop_LastWins(core, d_segments, n, best) ==
    IF n > Len(d_segments) THEN best
    ELSE BestDLoop_LastWins(core, d_segments, n + 1,
             IF find_longest_match(core, d_segments[n][2]).size >= best.best_score
             THEN [matched |-> TRUE,
                   best_match |-> find_longest_match(core, d_segments[n][2]),
                   best_score |-> find_longest_match(core, d_segments[n][2]).size,
                   best_d |-> d_segments[n][2]]
             ELSE best)

\* the loop over d_segments.items(), in the dictionary's order; best holds
\* best_match, best_score and best_d (matched: best_match is not None)
RECURSIVE BestDLoop(_, _, _, _)
BestDLoop(core, d_segments, n, best) ==
    IF n > Len(d_segments) THEN best
    ELSE LET d_seq == d_segments[n][2]
             match == find_longest_match(core, d_seq)
         IN  BestDLoop(core, d_segments, n + 1,
                       IF match.size > best.best_score
                       THEN [matched |-> TRUE, best_match |-> match,
                             best_score |-> match.size, best_d |-> d_seq]
                       ELSE best)

NoMatch == [a |-> 0, b |-> 0, size |-> 0]

\* best_d is <<d_seq>> for a sequence and <<>> for None
best_d_alignment(cdr3, cdr3_source, d_segments, min_v, min_j) ==
    LET core == PySlice(cdr3, min_v, Len(cdr3) - min_j)
        best == BestDLoop(core, d_segments, 1,
                          [matched |-> FALSE, best_match |-> NoMatch,
                           best_score |-> 0, best_d |-> <<>>])
        start == min_v + best.best_match.a
        end   == start + best.best_match.size
    IN  IF best.matched /\ best.best_score > 0
        THEN [cdr3 |-> cdr3,
              cdr3_source |-> PySlice(cdr3_source, 0, start)
                              \o Repeat("D", Len(PySlice(cdr3_source, start, end)))
                              \o PyFrom(cdr3_source, end),
              best_d |-> <<best.best_d>>]
        ELSE [cdr3 |-> cdr3, cdr3_source |-> cdr3_source, best_d |-> <<>>]

(***************************************************************************)
(* utils.choose_cutpoints_around_d                                         *)
(***************************************************************************)
before_d == {<<"V", "N">>, <<"N", "D">>, <<"V", "D">>, <<"V", "J">>}
after_d == {<<"D", "N">>, <<"D", "J">>, <<"N", "J">>, <<"V", "J">>}

\* the position after the transition, i + 1, is collected instead of i
RECURSIVE CutList_After(_, _, _, _)
CutList_After(label_string, transitions, lo, hi) ==
    IF lo >= hi THEN <<>>
    ELSE (IF <<At(label_string, lo), At(label_string, lo + 1)>> \in transitions
          THEN <<lo + 1>> ELSE <<>>)
         \o CutList_After(label_string, transitions, lo + 1, hi)

\* [i for i in range(lo, hi) if (label_string[i], label_string[i + 1]) in transitions]
RECURSIVE CutList(_, _, _, _)
CutList(label_string, transitions, lo, hi) ==
    IF lo >= hi THEN <<>>
    ELSE (IF <<At(label_string, lo), At(label_string, lo + 1)>> \in transitions
          THEN <<lo>> ELSE <<>>)
         \o CutList(label_string, transitions, lo + 1, hi)

\* range(len(label_string) - 1) for the cuts before D as well
cuts_before_FromZero(label_string) == CutList(label_string, before_d, 0, Len(label_string) - 1)

cuts_before(label_string) == CutList(label_string, before_d, 1, Len(label_string) - 1)
cuts_after(label_string) == CutList(label_string, after_d, 0, Len(label_string) - 2)

\* ret is <<>> for None and <<cut_before, cut_after>> otherwise; the two draws
\* are made left to right
choose_cutpoints_around_d(label_string, g) ==
    IF cuts_before(label_string) = <<>> \/ cuts_after(label_string) = <<>>
    THEN [ret |-> <<>>, rng |-> g]
    ELSE LET c1 == RandomChoice(cuts_before(label_string), g)
             c2 == RandomChoice(cuts_after(label_string), c1.rng)
         IN  [ret |-> <<c1.val, c2.val>>, rng |-> c2.rng]

(***************************************************************************)
(* utils.center_pad                                                        *)
(***************************************************************************)
\* the padding is computed from the V side alone
center_pad_IgnoresRight(germline_v, germline_j, total_length, fill_char) ==
    IF Len(germline_v) + Len(germline_j) > total_length
    THEN germline_v \o germline_j
    ELSE germline_v \o Repeat(fill_char, total_length - Len(germline_v)) \o germline_j

center_pad(germline_v, germline_j, total_length, fill_char) ==
    IF Len(germline_v) + Len(germline_j) > total_length
    THEN germline_v \o germline_j
    ELSE LET middle_length == total_length - Len(germline_v) - Len(germline_j)
         IN  germline_v
             \o (IF middle_length > 0 THEN Repeat(fill_char, middle_length) ELSE <<>>)
             \o germline_j

(***************************************************************************)
(* Field values of an input row.  A well-formed field is a string; a       *)
(* DataFrame cell may also hold None or a number.                          *)
(***************************************************************************)
Str(s) == [type |-> "str", val |-> s]
None == [type |-> "NoneType", val |-> <<>>]
Int123 == [type |-> "int", val |-> <<"123">>]

\* isinstance(x, str)
IsStr(x) == x.type = "str"

(***************************************************************************)
(* The germline reference snapshot that load_reference builds: for each    *)
(* chain and region, gene ids with their records.  V and J records carry   *)
(* 'cdrs', whose last ";"-separated segment is the germline CDR3 string; D *)
(* records carry 'aligned_protseq'.  Sequences keep the table's order.     *)
(***************************************************************************)
TRBV1 == <<"TRBV1", "*", "01">>
TRBJ1 == <<"TRBJ1", "*", "01">>
TRAV1 == <<"TRAV1", "*", "01">>
TRAJ1 == <<"TRAJ1", "*", "01">>
TRBD1 == <<"TRBD1", "*", "01">>
TRBD2 == <<"TRBD2", "*", "01">>

Reference(ch, region) ==
    CASE ch = "B" /\ region = "V" ->
           << [id |-> TRBV1, cdrs |-> <<"S", "N", ";", "F", "Q", ";", "C", "A", "S", "S">>] >>
      [] ch = "B" /\ region = "J" ->
           << [id |-> TRBJ1, cdrs |-> <<"N", "T", "E", "A", "Q", "Y", "F">>] >>
      [] ch = "B" /\ region = "D" ->
           << [id |-> TRBD1, aligned_protseq |-> <<"G", "G", "G">>],
              [id |-> TRBD2, aligned_protseq |-> <<"G", "E", "A">>] >>
      [] ch = "A" /\ region = "V" ->
           << [id |-> TRAV1, cdrs |-> <<"T", "S", ";", "C", "A", "V">>] >>
      [] ch = "A" /\ region = "J" ->
           << [id |-> TRAJ1, cdrs |-> <<"L", "I", "F">>] >>
      [] OTHER -> <<>>

\* load_reference: D_genes = {id: aligned_protseq} for chain "B", None otherwise
D_genes(ch) ==
    IF ch = "B"
    THEN [n \in 1..Len(Reference(ch, "D")) |->
             <<Reference(ch, "D")[n].id, Reference(ch, "D")[n].aligned_protseq>>]
    ELSE <<>>

\* gene in d[organism][chain][region]
HasGene(ch, region, gene) ==
    \E n \in 1..Len(Reference(ch, region)) : Reference(ch, region)[n].id = gene

\* d[organism][chain][region][gene]['cdrs'].split(";")[-1]
Germline(ch, region, gene) ==
    LET n == CHOOSE m \in 1..Len(Reference(ch, region)) : Reference(ch, region)[m].id = gene
    IN  SplitLast(Reference(ch, region)[n].cdrs)

(***************************************************************************)
(* core.shuffle: the body of the loop over sequences * depth.              *)
(***************************************************************************)
\* any() in place of all()
AllStr_Any(row) == IsStr(row[1]) \/ IsStr(row[2]) \/ IsStr(row[3])

\* the fields must also be non-empty
AllStr_NonEmpty(row) ==
    \A f \in 1..3 : IsStr(row[f]) /\ row[f].val # <<>>

\* all(isinstance(x, str) for x in (v, cdr3, j))
AllStr(row) == IsStr(row[1]) /\ IsStr(row[2]) /\ IsStr(row[3])

\* the suffix is appended whether or not the id has one
EnsureAllele_Always(gene) == gene \o <<"*", "01">>

\* if g.find("*") == -1: g = f"{g}*01"
EnsureAllele(gene) ==
    IF \E n \in 1..Len(gene) : gene[n] = "*" THEN gene ELSE gene \o <<"*", "01">>

\* the key the KeyError of the two lookups names: the V id first, then the J id;
\* <<>> when both lookups succeed
MissingKey(ch, v, j) ==
    IF ~HasGene(ch, "V", v) THEN <<v>>
    ELSE IF ~HasGene(ch, "J", j) THEN <<j>>
    ELSE <<>>

\* f"missing_germline_{e}": str() of a KeyError quotes the key
MissingReason(key) == <<"missing_germline_", "'">> \o key \o <<"'">>

DefaultMinV == 4
DefaultMinJ == 3

\* the defaults of shuffle's min_cut_v and min_cut_j
DefaultMinCutV == 4
DefaultMinCutJ == 3

\* cdr3_source (and d_gene) after labelling and, for chain "B", the D alignment
Labelled(ch, cdr3, germline_v, germline_j) ==
    LET vj_source == label_cdr3_germline_vj_regions(cdr3, germline_v, germline_j)
    IN  IF ch = "B"
        THEN best_d_alignment(cdr3, vj_source, D_genes(ch), DefaultMinV, DefaultMinJ)
        ELSE [cdr3 |-> cdr3, cdr3_source |-> vj_source, best_d |-> <<>>]

\* the three fragments cut from cdr3
v_part(cdr3, cut1, cut2) == PySlice(cdr3, 0, cut1 + 1)
d_part(cdr3, cut1, cut2) == PySlice(cdr3, cut1 + 1, cut2 + 1)
j_part(cdr3, cut1, cut2) == PyFrom(cdr3, cut2 + 1)

cut_cdr3(cdr3, cut1, cut2) ==
    PySlice(cdr3, 0, cut1 + 1) \o <<"-", "-">> \o Lower(PySlice(cdr3, cut1 + 1, cut2 + 1))
    \o <<"-", "-">> \o PyFrom(cdr3, cut2 + 1)

\* sequences * depth, and its record number n (0-based)
Total == Len(tcrs) * depth
Current == tcrs[(k % Len(tcrs)) + 1]

\* what the loop body computes for a row of strings
CurV == EnsureAllele(Current[1].val)
CurJ == EnsureAllele(Current[3].val)
CurCdr3 == Current[2].val
CurGermlineV == Germline(chain, "V", CurV)
CurGermlineJ == Germline(chain, "J", CurJ)
CurLabelled == Labelled(chain, CurCdr3, CurGermlineV, CurGermlineJ)
CurCutpoints == choose_cutpoints_around_d(CurLabelled.cdr3_source, rng)

(***************************************************************************)
(* Inputs of the model.                                                    *)
(***************************************************************************)
CdrD == <<"C", "A", "S", "S", "A", "G", "G", "E", "A", "Q", "Y", "F">>
CdrX == <<"C", "A", "G", "N", "A", "G", "G", "Q", "Y", "F">>
CdrN == <<"G", "G", "G", "G">>
CdrA == <<"C", "A", "V", "G", "L", "I", "F">>

\* the rows an input table is made of: two beta receptors (the second without
\* allele suffixes), an alpha receptor, rows with a None or a number in a
\* field, a row with an empty J id, one with an empty V id, one with an empty
\* CDR3 and one whose CDR3 matches no germline
Roster ==
    << <<Str(TRBV1), Str(CdrD), Str(TRBJ1)>>,
       <<Str(<<"TRBV1">>), Str(CdrX), Str(<<"TRBJ1">>)>>,
       <<Str(TRAV1), Str(CdrA), Str(<<"TRAJ1">>)>>,
       <<None, Str(CdrD), Str(TRBJ1)>>,
       <<Str(TRBV1), Int123, Str(<<"INVALID_J">>)>>,
       <<Str(TRBV1), Str(CdrD), Str(<<>>)>>,
       <<Str(<<>>), Str(CdrX), Str(TRBJ1)>>,
       <<Str(TRBV1), Str(<<>>), Str(TRBJ1)>>,
       <<Str(TRBV1), Str(CdrN), Str(TRBJ1)>> >>

\* the rows of Roster with their numbers in S, in Roster's order
RECURSIVE SubTable(_, _)
SubTable(S, n) ==
    IF n > Len(Roster) THEN <<>>
    ELSE (IF n \in S THEN <<Roster[n]>> ELSE <<>>) \o SubTable(S, n + 1)

Batches == {SubTable(S, 1) : S \in {T \in SUBSET (1..Len(Roster)) : Cardinality(T) <= MaxBatch}}
Seeds == {<<1>>, <<2>>}

NoResult == [kind |-> "none", rows |-> <<>>]
NoUnit == [fn |-> "none", arg |-> <<>>, returned |-> FALSE, ret |-> <<>>]

(***************************************************************************)
(* core.shuffle as a state machine.                                        *)
(***************************************************************************)
Init ==
    /\ tcrs \in Batches
    /\ chain \in {"A", "B"}
    /\ depth \in 0..MaxDepth
    /\ random_seed \in Seeds \cup {NoSeed}
    /\ return_presuffled \in BOOLEAN
    /\ return_errors \in BOOLEAN
    /\ min_cut_v = DefaultMinCutV
    /\ min_cut_j = DefaultMinCutJ
    /\ rng \in 0..(RngMod - 1)
    /\ pc = "call"
    /\ k = 0
    /\ store_v = <<>> /\ store_d = <<>> /\ store_j = <<>>
    /\ error_cdr3 = <<>>
    /\ presuffled_receptors = <<>>
    /\ failure_rate = <<>>
    /\ result = NoResult
    /\ run = 1
    /\ prev_result = NoResult
    /\ other_draws = 0
    /\ unit = NoUnit

params == <<tcrs, chain, depth, random_seed, return_presuffled, return_errors,
            min_cut_v, min_cut_j>>
caller == <<run, prev_result, other_draws, unit>>
pools == <<store_v, store_d, store_j>>

\* the seed is never applied
SeededRng_Ignored(seed, g) == g

\* if random_seed is not None: random.seed(random_seed)
SeededRng(seed, g) == IF seed # NoSeed THEN SeedState(seed) ELSE g

\* lines 103-113: load the reference, seed, empty stores
Begin ==
    /\ pc = "call"
    /\ rng' = SeededRng(random_seed, rng)
    /\ k' = 0
    /\ store_v' = <<>> /\ store_d' = <<>> /\ store_j' = <<>>
    /\ error_cdr3' = <<>>
    /\ presuffled_receptors' = <<>>
    /\ pc' = "loop"
    /\ UNCHANGED <<params, failure_rate, result, caller>>

\* error_cdr3.append((v, cdr3, j, reason)); continue
Fail(v, cdr3, j, reason) ==
    /\ error_cdr3' = Append(error_cdr3, <<v, cdr3, j, reason>>)
    /\ k' = k + 1
    /\ UNCHANGED <<params, pc, pools, presuffled_receptors, failure_rate, result,
                   caller>>

InvalidTypes ==
    /\ pc = "loop" /\ k < Total
    /\ ~AllStr(Current)
    /\ Fail(Current[1], Current[2], Current[3], <<"invalid_types">>)
    /\ UNCHANGED rng

MissingGermline ==
    /\ pc = "loop" /\ k < Total
    /\ AllStr(Current)
    /\ MissingKey(chain, CurV, CurJ) # <<>>
    /\ Fail(Str(CurV), Current[2], Str(CurJ), MissingReason(MissingKey(chain, CurV, CurJ)[1]))
    /\ UNCHANGED rng

NoCutpoints ==
    /\ pc = "loop" /\ k < Total
    /\ AllStr(Current)
    /\ MissingKey(chain, CurV, CurJ) = <<>>
    /\ CurCutpoints.ret = <<>>
    /\ Fail(Str(CurV), Str(CurLabelled.cdr3), Str(CurJ), CurLabelled.cdr3_source)
    /\ rng' = CurCutpoints.rng

\* lines 153-165: cut the fragments, append them to the pools and append the
\* diagnostic row
StoreFragments_SkipsEmptyD(cdr3, cut1, cut2) ==
    /\ store_v' = Append(store_v, <<CurV, v_part(cdr3, cut1, cut2)>>)
    /\ store_d' = IF d_part(cdr3, cut1, cut2) = <<>> THEN store_d
                  ELSE Append(store_d, <<CurLabelled.best_d, d_part(cdr3, cut1, cut2)>>)
    /\ store_j' = Append(store_j, <<CurJ, j_part(cdr3, cut1, cut2)>>)
    /\ presuffled_receptors' = Append(presuffled_receptors,
           [v |-> CurV, j |-> CurJ, germline_v |-> CurGermlineV,
            germline_j |-> CurGermlineJ, cdr3 |-> cdr3,
            cdr3_source |-> CurLabelled.cdr3_source,
            cut1 |-> cut1, cut2 |-> cut2,
            cut_cdr3 |-> cut_cdr3(cdr3, cut1, cut2),
            v_part |-> v_part(cdr3, cut1, cut2),
            d_part |-> d_part(cdr3, cut1, cut2),
            j_part |-> j_part(cdr3, cut1, cut2)])

StoreFragments(cdr3, cut1, cut2) ==
    /\ store_v' = Append(store_v, <<CurV, v_part(cdr3, cut1, cut2)>>)
    /\ store_d' = Append(store_d, <<CurLabelled.best_d, d_part(cdr3, cut1, cut2)>>)
    /\ store_j' = Append(store_j, <<CurJ, j_part(cdr3, cut1, cut2)>>)
    /\ presuffled_receptors' = Append(presuffled_receptors,
           [v |-> CurV, j |-> CurJ, germline_v |-> CurGermlineV,
            germline_j |-> CurGermlineJ, cdr3 |-> cdr3,
            cdr3_source |-> CurLabelled.cdr3_source,
            cut1 |-> cut1, cut2 |-> cut2,
            cut_cdr3 |-> cut_cdr3(cdr3, cut1, cut2),
            v_part |-> v_part(cdr3, cut1, cut2),
            d_part |-> d_part(cdr3, cut1, cut2),
            j_part |-> j_part(cdr3, cut1, cut2)])

Success ==
    /\ pc = "loop" /\ k < Total
    /\ AllStr(Current)
    /\ MissingKey(chain, CurV, CurJ) = <<>>
    /\ CurCutpoints.ret # <<>>
    /\ StoreFragments(CurLabelled.cdr3, CurCutpoints.ret[1], CurCutpoints.ret[2])
    /\ rng' = CurCutpoints.rng
    /\ k' = k + 1
    /\ UNCHANGED <<params, pc, error_cdr3, failure_rate, result, caller>>

\* failure_rate = len(error_cdr3) / (len(tcrs) * depth)
ReportFailureRate ==
    /\ pc = "loop" /\ k = Total
    /\ Total # 0
    /\ failure_rate' = <<Len(error_cdr3), Total>>
    /\ pc' = "select"
    /\ UNCHANGED <<params, k, pools, error_cdr3, presuffled_receptors, rng, result,
                   caller>>

\* the division raises ZeroDivisionError
RaiseZeroDivision ==
    /\ pc = "loop" /\ k = Total
    /\ Total = 0
    /\ pc' = "raised"
    /\ UNCHANGED <<params, k, pools, error_cdr3, presuffled_receptors, failure_rate,
                   rng, result, caller>>

ReturnErrors ==
    /\ pc = "select"
    /\ return_errors
    /\ result' = [kind |-> "errors", rows |-> error_cdr3]
    /\ pc' = "done"
    /\ UNCHANGED <<params, k, pools, error_cdr3, presuffled_receptors, failure_rate,
                   rng, caller>>

\* return_presuffled tested before return_errors
ReturnPresuffled_BeatsErrors ==
    /\ pc = "select"
    /\ return_presuffled
    /\ result' = [kind |-> "presuffled", rows |-> presuffled_receptors]
    /\ pc' = "done"
    /\ UNCHANGED <<params, k, pools, error_cdr3, presuffled_receptors, failure_rate,
                   rng, caller>>

ReturnPresuffled ==
    /\ pc = "select"
    /\ ~return_errors
    /\ return_presuffled
    /\ result' = [kind |-> "presuffled", rows |-> presuffled_receptors]
    /\ pc' = "done"
    /\ UNCHANGED <<params, k, pools, error_cdr3, presuffled_receptors, failure_rate,
                   rng, caller>>

\* (V, n + dseg + c, J, (n, dseg, c)) for (V, n), (D, dseg), (J, c) in zip(...)
new_junctions(sv, sd, sj) ==
    [n \in 1..Min(Len(sv), Min(Len(sd), Len(sj))) |->
        <<sv[n][1], sv[n][2] \o sd[n][2] \o sj[n][2], sj[n][1],
          <<sv[n][2], sd[n][2], sj[n][2]>> >>]

ReturnShuffled ==
    /\ pc = "select"
    /\ ~return_errors
    /\ ~return_presuffled
    /\ LET sv == RandomShuffle(store_v, rng)
           sd == RandomShuffle(store_d, sv.rng)
           sj == RandomShuffle(store_j, sd.rng)
       IN  /\ store_v' = sv.val
           /\ store_d' = sd.val
           /\ store_j' = sj.val
           /\ rng' = sj.rng
           /\ result' = [kind |-> "shuffled", rows |-> new_junctions(sv.val, sd.val, sj.val)]
    /\ pc' = "done"
    /\ UNCHANGED <<params, k, error_cdr3, presuffled_receptors, failure_rate,
                   caller>>

Next ==
    \/ Begin
    \/ InvalidTypes
    \/ MissingGermline
    \/ NoCutpoints
    \/ Success
    \/ ReportFailureRate
    \/ RaiseZeroDivision
    \/ ReturnErrors
    \/ ReturnPresuffled
    \/ ReturnShuffled

Spec == Init /\ [][Next]_vars

(***************************************************************************)
(* Calls of shuffle on the beta chain with min_cut_v and min_cut_j         *)
(* supplied by the caller.                                                 *)
(***************************************************************************)
InitMinCut ==
    /\ tcrs \in Batches
    /\ chain = "B"
    /\ depth \in 0..MaxDepth
    /\ random_seed = NoSeed
    /\ return_presuffled \in BOOLEAN
    /\ return_errors \in BOOLEAN
    /\ min_cut_v \in DefaultMinCutV..MaxMinCutV
    /\ min_cut_j \in DefaultMinCutJ..MaxMinCutJ
    /\ rng \in 0..(RngMod - 1)
    /\ pc = "call"
    /\ k = 0
    /\ store_v = <<>> /\ store_d = <<>> /\ store_j = <<>>
    /\ error_cdr3 = <<>>
    /\ presuffled_receptors = <<>>
    /\ failure_rate = <<>>
    /\ result = NoResult
    /\ run = 1
    /\ prev_result = NoResult
    /\ other_draws = 0
    /\ unit = NoUnit

SpecMinCut == InitMinCut /\ [][Next]_vars

(***************************************************************************)
(* A caller that repeats a seeded call with the same arguments.  Python's  *)
(* generator is module-level state: it keeps whatever state the first call *)
(* and any other code left it in.                                          *)
(***************************************************************************)
InitDet == Init /\ random_seed # NoSeed

\* the first call has returned; its locals are gone, its result is kept
CallAgain ==
    /\ pc \in {"done", "raised"}
    /\ run = 1
    /\ run' = 2
    /\ prev_result' = result
    /\ pc' = "call"
    /\ k' = 0
    /\ store_v' = <<>> /\ store_d' = <<>> /\ store_j' = <<>>
    /\ error_cdr3' = <<>>
    /\ presuffled_receptors' = <<>>
    /\ failure_rate' = <<>>
    /\ result' = NoResult
    /\ UNCHANGED <<params, rng, other_draws, unit>>

\* other code draws from the generator before the second call
OtherDraw ==
    /\ pc = "call"
    /\ run = 2
    /\ other_draws < MaxOtherDraws
    /\ rng' = RngNext(rng)
    /\ other_draws' = other_draws + 1
    /\ UNCHANGED <<params, pc, k, pools, error_cdr3, presuffled_receptors, failure_rate,
                   result, run, prev_result, unit>>

NextDet == Next \/ CallAgain \/ OtherDraw

SpecDet == InitDet /\ [][NextDet]_vars

(***************************************************************************)
(* Direct calls of utils.choose_cutpoints_around_d on every label string   *)
(* up to MaxLabelLen, from every state of the generator.                   *)
(***************************************************************************)
Labels == {"V", "N", "D", "J"}
LabelStrings == UNION {[1..n -> Labels] : n \in 0..MaxLabelLen}

\* the variables of shuffle while no call of it is made
NoShuffle ==
    /\ tcrs = <<>>
    /\ chain = "B"
    /\ depth = 0
    /\ random_seed = NoSeed
    /\ return_presuffled = FALSE
    /\ return_errors = FALSE
    /\ min_cut_v = DefaultMinCutV
    /\ min_cut_j = DefaultMinCutJ
    /\ pc = "unit"
    /\ k = 0
    /\ store_v = <<>> /\ store_d = <<>> /\ store_j = <<>>
    /\ error_cdr3 = <<>>
    /\ presuffled_receptors = <<>>
    /\ failure_rate = <<>>
    /\ result = NoResult
    /\ run = 1
    /\ prev_result = NoResult
    /\ other_draws = 0

shuffle_vars == <<params, pc, k, pools, error_cdr3, presuffled_receptors, failure_rate,
                  result, run, prev_result, other_draws>>

InitCut ==
    /\ NoShuffle
    /\ rng \in 0..(RngMod - 1)
    /\ unit \in {[fn |-> "choose_cutpoints_around_d", arg |-> L, returned |-> FALSE, ret |-> <<>>] :
                    L \in LabelStrings}

CallChooseCutpoints ==
    /\ pc = "unit"
    /\ unit.fn = "choose_cutpoints_around_d"
    /\ ~unit.returned
    /\ unit' = [unit EXCEPT !.returned = TRUE,
                            !.ret = choose_cutpoints_around_d(unit.arg, rng).ret]
    /\ rng' = choose_cutpoints_around_d(unit.arg, rng).rng
    /\ UNCHANGED shuffle_vars

NextCut == CallChooseCutpoints

SpecCut == InitCut /\ [][NextCut]_vars

(***************************************************************************)
(* Direct calls of the labelling functions on every CDR3 and germline      *)
(* string over a two-letter alphabet up to the bounds, and on the inputs   *)
(* of the test suite.                                                      *)
(***************************************************************************)
Residues == {"A", "G"}
Strings(n) == UNION {[1..m -> Residues] : m \in 0..n}

\* tests/test_tcrshuffler.py: test_label_cdr3_germline_vj_regions
TestCdr3 == <<"C", "A", "S", "S", "S", "H", "A", "G", "G", "N", "T", "E", "A", "F", "F">>
TestGermlineV == <<"C", "A", "S", "S">>
TestGermlineJ == <<"E", "A", "F", "F">>

\* candidate dictionaries, as sequences of (name, sequence) in insertion order
DSets ==
    { <<>>,
      << <<"d1", <<"A">> >> >>,
      << <<"d1", <<"G">> >>, <<"d2", <<"A">> >> >>,
      << <<"d1", <<"A", "G">> >>, <<"d2", <<"G", "A">> >> >>,
      << <<"d1", <<"A">> >>, <<"d2", <<"A", "G">> >> >> }

LabelCall(cdr3, germline_v, germline_j) ==
    [fn |-> "label_cdr3_germline_vj_regions",
     arg |-> [cdr3 |-> cdr3, germline_v |-> germline_v, germline_j |-> germline_j],
     returned |-> FALSE, ret |-> <<>>]

BestDCall(cdr3, cdr3_source, d_segments, min_v, min_j) ==
    [fn |-> "best_d_alignment",
     arg |-> [cdr3 |-> cdr3, cdr3_source |-> cdr3_source, d_segments |-> d_segments,
              min_v |-> min_v, min_j |-> min_j],
     returned |-> FALSE, ret |-> <<>>]

InitLabel ==
    /\ NoShuffle
    /\ rng = 0
    /\ unit \in {LabelCall(c, v, j) : c \in Strings(MaxCdr3Len),
                                        v \in Strings(MaxGermLen),
                                        j \in Strings(MaxGermLen)}
                 \cup {LabelCall(TestCdr3, TestGermlineV, TestGermlineJ)}

CallLabel ==
    /\ pc = "unit"
    /\ unit.fn = "label_cdr3_germline_vj_regions"
    /\ ~unit.returned
    /\ unit' = [unit EXCEPT !.returned = TRUE,
                            !.ret = label_cdr3_germline_vj_regions(
                                        unit.arg.cdr3, unit.arg.germline_v,
                                        unit.arg.germline_j)]
    /\ UNCHANGED <<shuffle_vars, rng>>

\* the caller passes the labels on to best_d_alignment, as core.shuffle does
PassToBestD ==
    /\ pc = "unit"
    /\ unit.fn = "label_cdr3_germline_vj_regions"
    /\ unit.returned
    /\ \E d \in DSets, mv \in 0..MaxMin, mj \in 0..MaxMin :
           unit' = BestDCall(unit.arg.cdr3, unit.ret, d, mv, mj)
    /\ UNCHANGED <<shuffle_vars, rng>>

CallBestD ==
    /\ pc = "unit"
    /\ unit.fn = "best_d_alignment"
    /\ ~unit.returned
    /\ unit' = [unit EXCEPT !.returned = TRUE,
                            !.ret = best_d_alignment(unit.arg.cdr3, unit.arg.cdr3_source,
                                                     unit.arg.d_segments,
                                                     unit.arg.min_v, unit.arg.min_j)]
    /\ UNCHANGED <<shuffle_vars, rng>>

NextLabel == CallLabel \/ PassToBestD \/ CallBestD

SpecLabel == InitLabel /\ [][NextLabel]_vars

(***************************************************************************)
(* Direct calls of utils.best_d_alignment on every CDR3, every label       *)
(* string of its length, and every min_v and min_j up to the bounds.       *)
(***************************************************************************)
InitBestD ==
    /\ NoShuffle
    /\ rng = 0
    /\ \E c \in Strings(MaxCdr3Len), d \in DSets, mv \in 0..MaxMin, mj \in 0..MaxMin :
           \E L \in [1..Len(c) -> Labels] :
               unit = BestDCall(c, L, d, mv, mj)

NextBestD == CallBestD

SpecBestD == InitBestD /\ [][NextBestD]_vars

(***************************************************************************)
(* Direct calls of utils.center_pad.                                       *)
(***************************************************************************)
FillChars == {".", "A"}

PadCall(germline_v, germline_j, total_length, fill_char) ==
    [fn |-> "center_pad",
     arg |-> [germline_v |-> germline_v, germline_j |-> germline_j,
              total_length |-> total_length, fill_char |-> fill_char],
     returned |-> FALSE, ret |-> <<>>]

InitPad ==
    /\ NoShuffle
    /\ rng = 0
    /\ unit \in {PadCall(v, j, n, f) : v \in Strings(MaxGermLen), j \in Strings(MaxGermLen),
                                        n \in (-1)..MaxTotalLength, f \in FillChars}
                 \cup {PadCall(TestGermlineV, TestGermlineJ, n, ".") : n \in {5, 10}}

CallCenterPad ==
    /\ pc = "unit"
    /\ unit.fn = "center_pad"
    /\ ~unit.returned
    /\ unit' = [unit EXCEPT !.returned = TRUE,
                            !.ret = center_pad(unit.arg.germline_v, unit.arg.germline_j,
                                               unit.arg.total_length, unit.arg.fill_char)]
    /\ UNCHANGED <<shuffle_vars, rng>>

NextPad == CallCenterPad

SpecPad == InitPad /\ [][NextPad]_vars

(***************************************************************************)
(* Properties.                                                             *)
(***************************************************************************)
\* how often x occurs in the sequence s
Count(s, x) == Cardinality({n \in 1..Len(s) : s[n] = x})
Range(s) == {s[n] : n \in 1..Len(s)}
SameMultiset(s, t) ==
    /\ Len(s) = Len(t)
    /\ \A x \in Range(s) \cup Range(t) : Count(s, x) = Count(t, x)

InCall == pc \in {"loop", "select", "done", "raised"}

\* C1: for every record processed successfully, whatever the order of the
\* cutpoints, the three fragments concatenate to the record's cdr3.
C1_FragmentsReconstruct ==
    \A n \in 1..Len(presuffled_receptors) :
        presuffled_receptors[n].v_part \o presuffled_receptors[n].d_part
            \o presuffled_receptors[n].j_part = presuffled_receptors[n].cdr3

\* C2: after every processed record the three pools and the diagnostic rows
\* have one entry per success, successes and errors add up to the records
\* processed so far, at the end to len(tcrs) * depth, and the shuffled output
\* has one row per success.
C2_PoolSizes ==
    InCall =>
        /\ Len(store_v) = Len(presuffled_receptors)
        /\ Len(store_d) = Len(presuffled_receptors)
        /\ Len(store_j) = Len(presuffled_receptors)
        /\ Len(presuffled_receptors) + Len(error_cdr3) = k
        /\ pc # "loop" => k = Len(tcrs) * depth
        /\ (pc = "done" /\ result.kind = "shuffled") =>
               Len(result.rows) = Len(presuffled_receptors)

C2_Witness ==
    /\ pc = "done"
    /\ result.kind = "shuffled"
    /\ Len(result.rows) = 2
    /\ Len(error_cdr3) = 2
    /\ depth = 2

\* C3: a second call with the same table, chain, depth, flags and non-None
\* seed returns what the first call returned, whatever was drawn from the
\* generator before it.
C3_SeededCallsAgree ==
    (run = 2 /\ pc = "done") => result = prev_result

C3_Witness ==
    /\ run = 2
    /\ pc = "done"
    /\ other_draws > 0
    /\ result.kind = "shuffled"
    /\ Len(result.rows) >= 2
    /\ \E n \in 1..Len(result.rows) : result.rows[n][2] # presuffled_receptors[n].cdr3

\* C4: the output is chosen by errors before presuffled before shuffled: with
\* return_errors the error list is returned whatever return_presuffled is,
\* otherwise with return_presuffled the diagnostic rows, and only with both
\* flags false are the pools permuted and the shuffled rows returned.
C4_OutputPrecedence ==
    [][(pc = "select" /\ pc' = "done") =>
          IF return_errors
          THEN result'.kind = "errors" /\ result'.rows = error_cdr3
               /\ pools' = pools /\ rng' = rng
          ELSE IF return_presuffled
          THEN result'.kind = "presuffled" /\ result'.rows = presuffled_receptors
               /\ pools' = pools /\ rng' = rng
          ELSE result'.kind = "shuffled"]_vars

C4_Witness ==
    /\ pc = "done"
    /\ return_errors /\ return_presuffled
    /\ result.kind = "errors"
    /\ Len(result.rows) > 0
    /\ Len(presuffled_receptors) > 0

\* C5: in default mode the output recombines the pools: its (V id, v fragment)
\* pairs are the V pool as a multiset, its (J id, j fragment) pairs the J pool,
\* its d fragments the D pool's fragments, and each row's cdr3 is the
\* concatenation of the row's own components.
C5_OutputRecombinesPools ==
    (pc = "done" /\ result.kind = "shuffled") =>
        LET rows == result.rows
            pre  == presuffled_receptors
        IN  /\ SameMultiset([n \in 1..Len(rows) |-> <<rows[n][1], rows[n][4][1]>>],
                            [n \in 1..Len(pre) |-> <<pre[n].v, pre[n].v_part>>])
            /\ SameMultiset([n \in 1..Len(rows) |-> <<rows[n][3], rows[n][4][3]>>],
                            [n \in 1..Len(pre) |-> <<pre[n].j, pre[n].j_part>>])
            /\ SameMultiset([n \in 1..Len(rows) |-> rows[n][4][2]],
                            [n \in 1..Len(pre) |-> pre[n].d_part])
            /\ \A n \in 1..Len(rows) :
                   rows[n][2] = rows[n][4][1] \o rows[n][4][2] \o rows[n][4][3]

C5_Witness ==
    /\ pc = "done"
    /\ result.kind = "shuffled"
    /\ Len(result.rows) = 4
    /\ \E n \in 1..Len(result.rows) :
           \A m \in 1..Len(presuffled_receptors) :
               result.rows[n][2] # presuffled_receptors[m].cdr3

\* C6: choose_cutpoints_around_d returns nothing exactly when the before-D
\* candidates ((V,N), (N,D), (V,D), (V,J) at i in [1, len-2]) or the after-D
\* candidates ((D,N), (D,J), (N,J), (V,J) at i in [0, len-3]) are empty, and
\* otherwise a member of each set.
C6_Before(L) ==
    {i \in 1..(Len(L) - 2) :
        <<L[i + 1], L[i + 2]>> \in {<<"V", "N">>, <<"N", "D">>, <<"V", "D">>, <<"V", "J">>}}
C6_After(L) ==
    {i \in 0..(Len(L) - 3) :
        <<L[i + 1], L[i + 2]>> \in {<<"D", "N">>, <<"D", "J">>, <<"N", "J">>, <<"V", "J">>}}
CutpointsReturned == unit.fn = "choose_cutpoints_around_d" /\ unit.returned

C6_CutpointsFromCandidates ==
    CutpointsReturned =>
        /\ unit.ret = <<>> <=> (C6_Before(unit.arg) = {} \/ C6_After(unit.arg) = {})
        /\ unit.ret # <<>> =>
              /\ unit.ret[1] \in C6_Before(unit.arg)
              /\ unit.ret[2] \in C6_After(unit.arg)

C6_Witness ==
    /\ CutpointsReturned
    /\ unit.ret # <<>>
    /\ Cardinality(C6_Before(unit.arg)) = 2
    /\ unit.ret[1] = 3

\* C7 as claimed: a returned pair has cut1 < cut2 and both cuts in
\* [0, len(L) - 1).
C7_Original ==
    (CutpointsReturned /\ unit.ret # <<>>) =>
        /\ unit.ret[1] < unit.ret[2]
        /\ 0 <= unit.ret[1] /\ unit.ret[1] < Len(unit.arg) - 1
        /\ 0 <= unit.ret[2] /\ unit.ret[2] < Len(unit.arg) - 1

\* C7 amended: a returned pair has both cuts in [0, len(L) - 1); no order
\* between cut1 and cut2 is guaranteed.
C7_CutsInRange ==
    (CutpointsReturned /\ unit.ret # <<>>) =>
        /\ 0 <= unit.ret[1] /\ unit.ret[1] < Len(unit.arg) - 1
        /\ 0 <= unit.ret[2] /\ unit.ret[2] < Len(unit.arg) - 1

C7_Witness ==
    /\ CutpointsReturned
    /\ unit.ret # <<>>
    /\ unit.ret[1] > unit.ret[2]

\* the record the loop body is about to process
InLoopBody == pc = "loop" /\ k < Len(tcrs) * depth
RowK == tcrs[(k % Len(tcrs)) + 1]
NonStringRow(row) == \E f \in 1..3 : row[f].type # "str"
EmptyStringRow(row) == \E f \in 1..3 : row[f].type = "str" /\ row[f].val = <<>>
LastError == error_cdr3'[Len(error_cdr3')]
IsMissingGermline(reason) == reason # <<>> /\ reason[1] = "missing_germline_"

\* C8: a processed row with a missing or non-string V, CDR3 or J is appended
\* to the error list as "invalid_types", once each time it is processed, and
\* adds nothing to the pools or the diagnostic rows.
C8_InvalidRowsOnlyInErrors ==
    [][(InLoopBody /\ NonStringRow(RowK)) =>
          /\ error_cdr3' = Append(error_cdr3,
                                  <<RowK[1], RowK[2], RowK[3], <<"invalid_types">> >>)
          /\ pools' = pools
          /\ presuffled_receptors' = presuffled_receptors
          /\ k' = k + 1]_vars

C8_Witness ==
    /\ pc = "done"
    /\ depth = 2
    /\ Count([n \in 1..Len(error_cdr3) |-> error_cdr3[n][4]], <<"invalid_types">>) = 2
    /\ Len(store_v) = 2
    /\ result.kind = "shuffled"

\* C9 as claimed: a record with an empty-string V, CDR3 or J is recorded as
\* an error with reason "invalid_types".
C9_Original ==
    [][(InLoopBody /\ EmptyStringRow(RowK)) =>
          /\ Len(error_cdr3') = Len(error_cdr3) + 1
          /\ LastError[4] = <<"invalid_types">>]_vars

\* C9 amended: the type check only requires strings; a record of strings
\* with an empty V, CDR3 or J is not tagged "invalid_types" but is still
\* recorded as an error and not pooled: as missing_germline when an id is
\* empty, as missing_germline or with the empty label string when only the
\* CDR3 is empty.
C9_EmptyStringsPassTypeCheck ==
    [][(InLoopBody /\ ~NonStringRow(RowK) /\ EmptyStringRow(RowK)) =>
          /\ Len(error_cdr3') = Len(error_cdr3) + 1
          /\ LastError[4] # <<"invalid_types">>
          /\ IF RowK[1].val = <<>> \/ RowK[3].val = <<>>
             THEN IsMissingGermline(LastError[4])
             ELSE LastError[4] = <<>> \/ IsMissingGermline(LastError[4])
          /\ pools' = pools
          /\ presuffled_receptors' = presuffled_receptors]_vars

C9_Witness ==
    /\ pc = "done"
    /\ \E n \in 1..Len(error_cdr3) :
           error_cdr3[n][4] = <<"missing_germline_", "'", "*", "01", "'">>
    /\ \E n \in 1..Len(error_cdr3) : error_cdr3[n][2] = Str(<<>>) /\ error_cdr3[n][4] = <<>>

\* C10: for a record of strings the ids get "*01" appended when they hold no
\* "*"; if the normalized V or J id is not in the reference, one error with
\* reason missing_germline_<key> naming a missing key is appended and the
\* record reaches neither the cutpoint draw nor the pools; if both are in
\* the reference no missing_germline error is appended for it.
C10_Normalized(gene) == IF "*" \in Range(gene) THEN gene ELSE gene \o <<"*", "01">>
C10_Keys(region) == {Reference(chain, region)[n].id : n \in 1..Len(Reference(chain, region))}
C10_Missing(v, j) == {key \in {v, j} : (key = v /\ v \notin C10_Keys("V"))
                                         \/ (key = j /\ j \notin C10_Keys("J"))}

C10_MissingGermlineRecorded ==
    [][(InLoopBody /\ ~NonStringRow(RowK)) =>
          IF C10_Missing(C10_Normalized(RowK[1].val), C10_Normalized(RowK[3].val)) # {}
          THEN /\ \E key \in C10_Missing(C10_Normalized(RowK[1].val),
                                         C10_Normalized(RowK[3].val)) :
                      error_cdr3' = Append(error_cdr3,
                          <<Str(C10_Normalized(RowK[1].val)), RowK[2],
                            Str(C10_Normalized(RowK[3].val)),
                            <<"missing_germline_", "'">> \o key \o <<"'">> >>)
               /\ pools' = pools
               /\ presuffled_receptors' = presuffled_receptors
               /\ rng' = rng
          ELSE \/ error_cdr3' = error_cdr3
               \/ /\ Len(error_cdr3') = Len(error_cdr3) + 1
                  /\ ~IsMissingGermline(LastError[4])]_vars

C10_Witness ==
    /\ pc = "done"
    /\ chain = "A"
    /\ tcrs = <<Roster[2], Roster[3]>>
    /\ Len(store_v) = depth
    /\ error_cdr3[1] = <<Str(TRBV1), Str(CdrX), Str(TRBJ1),
                         <<"missing_germline_", "'", "TRBV1", "*", "01", "'">> >>

\* C11 as claimed: for every batch, the empty one included, and every depth
\* >= 1 the call does not raise, and once the loop is over failure_rate =
\* |errors| / (|input| * depth) has been computed before the output is
\* selected.
C11_FailureRateAlwaysReported ==
    (InCall /\ depth >= 1) =>
        /\ pc # "raised"
        /\ pc \in {"select", "done"} =>
              failure_rate = <<Len(error_cdr3), Len(tcrs) * depth>>

\* C12 as claimed: in every diagnostic row of a beta-chain call no position
\* among the first min_cut_v or the last min_cut_j residues of the CDR3 is
\* labeled D in cdr3_source.
C12_MinCutsHonoured ==
    \A n \in 1..Len(presuffled_receptors) :
        \A i \in 0..(Len(presuffled_receptors[n].cdr3_source) - 1) :
            At(presuffled_receptors[n].cdr3_source, i) = "D" =>
                /\ i >= min_cut_v
                /\ i < Len(presuffled_receptors[n].cdr3) - min_cut_j

LabelReturned == unit.fn = "label_cdr3_germline_vj_regions" /\ unit.returned
BestDReturned == unit.fn = "best_d_alignment" /\ unit.returned
WellFormedLabels(L, cdr3) ==
    /\ Len(L) = Len(cdr3)
    /\ \A n \in 1..Len(L) : L[n] \in {"V", "N", "D", "J"}

\* C13: the label string of label_cdr3_germline_vj_regions and the label
\* string best_d_alignment returns from it both have len(cdr3) characters,
\* each one of V, N, D, J.
C13_LabelsWellFormed ==
    /\ LabelReturned => WellFormedLabels(unit.ret, unit.arg.cdr3)
    /\ BestDReturned =>
          /\ WellFormedLabels(unit.arg.cdr3_source, unit.arg.cdr3)
          /\ WellFormedLabels(unit.ret.cdr3_source, unit.arg.cdr3)
          /\ unit.ret.cdr3 = unit.arg.cdr3

C13_Witness ==
    /\ BestDReturned
    /\ Len(unit.arg.cdr3) = 3
    /\ unit.arg.cdr3_source = <<"V", "N", "J">>
    /\ unit.ret.cdr3_source = <<"V", "D", "J">>

\* position i (0-based) of cdr3 matches the left-aligned germline_v
C14_MatchesV(cdr3, germline_v, i) ==
    /\ i < Min(Len(germline_v), Len(cdr3))
    /\ germline_v[i + 1] = cdr3[i + 1]
\* position i lies in the last len(germline_j) positions and matches the
\* right-aligned germline_j
C14_MatchesJ(cdr3, germline_j, i) ==
    /\ i >= Len(cdr3) - Len(germline_j)
    /\ germline_j[i + 1 - (Len(cdr3) - Len(germline_j))] = cdr3[i + 1]

\* C14: a position is labeled V exactly when it matches the left-aligned
\* germline_v; otherwise J exactly when it matches the right-aligned
\* germline_j; otherwise N.  "CASSSHAGGNTEAFF" with "CASS" and "EAFF" gives
\* "VVVVNNNNNNNJJJJ".
C14_VBeforeJ ==
    LabelReturned =>
        /\ Len(unit.ret) = Len(unit.arg.cdr3)
        /\ \A i \in 0..(Len(unit.arg.cdr3) - 1) :
              unit.ret[i + 1] =
                  IF C14_MatchesV(unit.arg.cdr3, unit.arg.germline_v, i) THEN "V"
                  ELSE IF C14_MatchesJ(unit.arg.cdr3, unit.arg.germline_j, i) THEN "J"
                  ELSE "N"
        /\ unit.arg.cdr3 = TestCdr3 =>
              unit.ret = <<"V", "V", "V", "V", "N", "N", "N", "N", "N", "N", "N",
                           "J", "J", "J", "J">>

C14_Witness ==
    /\ LabelReturned
    /\ Len(unit.arg.cdr3) = 3
    /\ \E i \in 0..2 :
          /\ C14_MatchesV(unit.arg.cdr3, unit.arg.germline_v, i)
          /\ C14_MatchesJ(unit.arg.cdr3, unit.arg.germline_j, i)
          /\ unit.ret[i + 1] = "V"
    /\ "J" \in Range(unit.ret)

\* core[a : a + n] occurs in d (0-based a, n >= 1)
C15_Occurs(core, d, a, n) ==
    /\ a + n <= Len(core)
    /\ \E j \in 0..(Len(d) - n) : \A t \in 1..n : core[a + t] = d[j + t]
\* the length of the longest contiguous substring core and d share
C15_Score(core, d) ==
    CHOOSE n \in 0..Len(core) :
        /\ n > 0 => \E a \in 0..(Len(core) - 1) : C15_Occurs(core, d, a, n)
        /\ \A m \in (n + 1)..Len(core) :
              ~ \E a \in 0..(Len(core) - 1) : C15_Occurs(core, d, a, m)
C15_BestScore(core, ds) ==
    IF ds = <<>> THEN 0
    ELSE CHOOSE n \in {C15_Score(core, ds[c][2]) : c \in 1..Len(ds)} :
             \A c \in 1..Len(ds) : C15_Score(core, ds[c][2]) <= n
\* the first candidate, in the dictionary's order, that reaches the best score
C15_Winner(core, ds) ==
    CHOOSE c \in 1..Len(ds) :
        /\ C15_Score(core, ds[c][2]) = C15_BestScore(core, ds)
        /\ \A b \in 1..(c - 1) : C15_Score(core, ds[b][2]) < C15_BestScore(core, ds)
\* where the matched span starts in core: the earliest longest match
C15_Start(core, d, n) ==
    CHOOSE a \in 0..(Len(core) - 1) :
        /\ C15_Occurs(core, d, a, n)
        /\ \A b \in 0..(a - 1) : ~C15_Occurs(core, d, b, n)
C15_Core == PySlice(unit.arg.cdr3, unit.arg.min_v, Len(unit.arg.cdr3) - unit.arg.min_j)
C15_SpanStart ==
    unit.arg.min_v
    + C15_Start(C15_Core,
                unit.arg.d_segments[C15_Winner(C15_Core, unit.arg.d_segments)][2],
                C15_BestScore(C15_Core, unit.arg.d_segments))

\* C15: best_d_alignment picks the candidate with the longest common
\* substring with the core, the first in the dictionary's order on a tie;
\* with a positive length it returns the cdr3, the labels with exactly the
\* matched span set to D, and that candidate's sequence; otherwise the
\* labels unchanged and None.
C15_BestCandidateWins ==
    BestDReturned =>
        IF C15_BestScore(C15_Core, unit.arg.d_segments) > 0
        THEN /\ unit.ret.cdr3 = unit.arg.cdr3
             /\ unit.ret.best_d =
                   <<unit.arg.d_segments[C15_Winner(C15_Core, unit.arg.d_segments)][2]>>
             /\ Len(unit.ret.cdr3_source) = Len(unit.arg.cdr3_source)
             /\ \A i \in 0..(Len(unit.arg.cdr3_source) - 1) :
                   unit.ret.cdr3_source[i + 1] =
                       IF /\ C15_SpanStart <= i
                          /\ i < C15_SpanStart + C15_BestScore(C15_Core, unit.arg.d_segments)
                       THEN "D" ELSE unit.arg.cdr3_source[i + 1]
        ELSE /\ unit.ret.cdr3 = unit.arg.cdr3
             /\ unit.ret.cdr3_source = unit.arg.cdr3_source
             /\ unit.ret.best_d = <<>>

C15_Witness ==
    /\ BestDReturned
    /\ unit.arg.cdr3 = <<"A", "G", "A">>
    /\ unit.arg.cdr3_source = <<"V", "N", "J">>
    /\ unit.arg.d_segments = << <<"d1", <<"A", "G">> >>, <<"d2", <<"G", "A">> >> >>
    /\ unit.arg.min_v = 0 /\ unit.arg.min_j = 0
    /\ unit.ret.best_d = << <<"A", "G">> >>
    /\ unit.ret.cdr3_source = <<"D", "D", "J">>

\* C17 as claimed: for every min_v >= 0 and min_j >= 0, len(cdr3) < min_j
\* included, best_d_alignment changes labels only at positions i with
\* min_v <= i < len(cdr3) - min_j.
C17_FrameOutsideCore ==
    BestDReturned =>
        /\ Len(unit.ret.cdr3_source) = Len(unit.arg.cdr3_source)
        /\ \A i \in 0..(Len(unit.arg.cdr3_source) - 1) :
              unit.ret.cdr3_source[i + 1] # unit.arg.cdr3_source[i + 1] =>
                  /\ unit.arg.min_v <= i
                  /\ i < Len(unit.arg.cdr3) - unit.arg.min_j

PadReturned == unit.fn = "center_pad" /\ unit.returned

\* C16: when len(germline_v) + len(germline_j) <= total_length, center_pad
\* returns total_length characters that start with germline_v, end with
\* germline_j and are fill characters in between; when the combined length
\* exceeds total_length it returns germline_v + germline_j.
C16_CenterPad ==
    PadReturned =>
        IF Len(unit.arg.germline_v) + Len(unit.arg.germline_j) <= unit.arg.total_length
        THEN /\ Len(unit.ret) = unit.arg.total_length
             /\ \A i \in 1..Len(unit.ret) :
                   unit.ret[i] =
                       IF i <= Len(unit.arg.germline_v) THEN unit.arg.germline_v[i]
                       ELSE IF i <= Len(unit.ret) - Len(unit.arg.germline_j)
                            THEN unit.arg.fill_char
                            ELSE unit.arg.germline_j[i - (Len(unit.ret)
                                                          - Len(unit.arg.germline_j))]
        ELSE unit.ret = unit.arg.germline_v \o unit.arg.germline_j

C16_Witness ==
    /\ PadReturned
    /\ unit.arg.germline_v = TestGermlineV
    /\ unit.arg.germline_j = TestGermlineJ
    /\ unit.arg.total_length = 10
    /\ unit.ret = <<"C", "A", "S", "S", ".", ".", "E", "A", "F", "F">>

====
